---- MODULE Spec2Model ----
(***************************************************************************)
(* Model of src/server.rs: HttpServer::run, the handler closure,           *)
(* HttpServer::thread_handle, HttpServer::read_stream and the pool module  *)
(* (ThreadPool::new, ThreadPool::join, Worker::inner, Worker::join).       *)
(***************************************************************************)
EXTENDS Integers, Sequences, FiniteSets, TLC

(* ---- bounds of the model ---------------------------------------------- *)
PoolSize == 2          \* worker threads started by ThreadPool::new(size, ..)
MaxConns == 2          \* connections the listener ever accepts
NumMiddleware == 2     \* length of app.middleware

Workers == 1..PoolSize
Conns == 1..MaxConns
Middleware == 1..NumMiddleware

MaxFrameLen == 6       \* longest buffer handed to the header/body split
MaxParams == 2         \* longest parameter list a matcher returns

(* ---- program constants of read_stream -------------------------------- *)
BUFFER_SIZE == 512
MAX_BYTES == 1028 * 8
ReadSizes == 1..BUFFER_SIZE

(* bytes of the request buffer: CR, LF and one other byte *)
CR == 13
LF == 10
Bytes == {CR, LF, 65}
CRLFCRLF == <<CR, LF, CR, LF>>

RECURSIVE SeqsUpTo(_, _)
SeqsUpTo(S, n) ==
    IF n = 0 THEN {<<>>}
    ELSE LET shorter == SeqsUpTo(S, n - 1)
         IN shorter \cup {Append(q, x) : q \in shorter, x \in S}

(* what the router of the snapshot can answer for one request *)
Services == {"svc_a", "svc_b"}
ParamNames == {"id", "name"}
ParamValues == {"1", "2"}
ParamLists == SeqsUpTo(ParamNames \X ParamValues, MaxParams)

VARIABLES
    runPc,      \* position of the thread that called run()
    close,      \* ThreadPool.close (AtomicBool)
    joinIdx,    \* index of the worker ThreadPool::join is waiting for
    accPc,      \* position of the acceptor thread
    accConn,    \* the stream the acceptor holds between accept and send
    nConns,     \* number of connections accepted so far
    cst,        \* per connection: "new", "accepted", "sent", "send_err"
    queue,      \* contents of the mpsc channel
    lock,       \* holder of the Mutex around the Receiver (0 = free)
    wpc,        \* per worker: position in Worker::inner
    witem,      \* per worker: the item handed to handle(data) (0 = none)
    hpc,        \* per worker: position inside the handler closure
    res,        \* per worker: result of thread_handle, <<variant, failed step>>
    trace,      \* per worker: pipeline steps executed for the current item
    deq,        \* per connection: number of times it was received from the queue
    wfailed,    \* per worker: a handler call of it has ended in the fallback
    wrote,      \* per connection: write_all calls, <<response, succeeded>>
    shut,       \* per connection: stream.shutdown(Both) was called
    amount_read,\* read_stream: amount_read
    data_len,   \* read_stream: data.len()
    rpc,        \* read_stream: "loop", "done" (Ok(data)) or "err"
    hdr_seen,   \* read_stream: data already contains CRLFCRLF
    f_bytes,    \* split: the buffer returned by read_stream
    f_header,   \* split: bytes handed to String::from_utf8
    f_body,     \* split: bytes handed to from_parts as body
    f_pc,       \* split: "split" or "done"
    r_tree,     \* routing: app.tree.get(method) is Some
    r_find,     \* routing: tree.find(url), <<>> or << <<service, list>> >>
    r_service,  \* routing: the service resolved
    r_params,   \* routing: the BTreeMap, a set of <<name, value>>
    r_request,  \* routing: parameters of the Request built by from_parts
    r_called,   \* routing: <<service, parameters>> of service.call
    r_pc,       \* routing: "resolve", "from_parts", "call" or "called"
    polls,      \* complete 100 ms dequeue waits elapsed since the pool is
                \* idle with the shutdown flag set
    idleWait    \* the recv_timeout in progress began in that condition

vars == <<runPc, close, joinIdx, accPc, accConn, nConns, cst, queue, lock,
          wpc, witem, hpc, res, trace, wfailed, deq, wrote, shut,
          amount_read, data_len, rpc, hdr_seen, polls, idleWait,
          f_bytes, f_header, f_body, f_pc,
          r_tree, r_find, r_service, r_params, r_request, r_called, r_pc>>

runVars == <<runPc, close, joinIdx>>
accVars == <<accPc, accConn, nConns, cst>>
poolVars == <<wpc, lock>>
handlerVars == <<witem, hpc, res, trace, wfailed>>
connVars == <<deq, wrote, shut>>
readVars == <<amount_read, data_len, rpc, hdr_seen>>
frameVars == <<f_bytes, f_header, f_body, f_pc>>
routeVars == <<r_tree, r_find, r_service, r_params, r_request, r_called, r_pc>>
timeVars == <<polls, idleWait>>

(* The Sender is owned by the acceptor closure and dropped when it ends.   *)
SenderDropped == accPc = "done"

(* close is set, nothing is queued and no worker is running the handler *)
ShutdownIdle ==
    /\ close
    /\ queue = <<>>
    /\ \A w \in Workers : wpc[w] # "handle"

(* Every worker closure owns one Arc of the Receiver; the Receiver is      *)
(* dropped when the last worker thread has returned from inner.            *)
ReceiverDropped == \A w \in Workers : wpc[w] = "exited"

ServerInit ==
    /\ runPc = "bind"
    /\ close = FALSE
    /\ joinIdx = 0
    /\ accPc = "unspawned"
    /\ accConn = 0
    /\ nConns = 0
    /\ cst = [c \in Conns |-> "new"]
    /\ queue = <<>>
    /\ lock = 0
    /\ wpc = [w \in Workers |-> "unspawned"]
    /\ witem = [w \in Workers |-> 0]
    /\ hpc = [w \in Workers |-> "idle"]
    /\ res = [w \in Workers |-> <<"none", "">>]
    /\ trace = [w \in Workers |-> <<>>]
    /\ deq = [c \in Conns |-> 0]
    /\ wfailed = [w \in Workers |-> FALSE]
    /\ wrote = [c \in Conns |-> <<>>]
    /\ shut = [c \in Conns |-> FALSE]
    /\ polls = 0
    /\ idleWait = FALSE

ReadInit ==
    /\ amount_read = 0
    /\ data_len = 0
    /\ rpc = "loop"
    /\ hdr_seen = FALSE

FrameInit(bytes) ==
    /\ f_bytes = bytes
    /\ f_header = <<>>
    /\ f_body = <<>>
    /\ f_pc = "split"

RouteInit(tree, find) ==
    /\ r_tree = tree
    /\ r_find = find
    /\ r_service = ""
    /\ r_params = {}
    /\ r_request = {}
    /\ r_called = <<>>
    /\ r_pc = "resolve"

Init ==
    /\ ServerInit
    /\ ReadInit
    /\ FrameInit(<<>>)
    /\ RouteInit(FALSE, <<>>)

(* ======================= HttpServer::run =============================== *)

RunBindOk ==
    /\ runPc = "bind"
    /\ runPc' = "new_pool"
    /\ UNCHANGED <<close, joinIdx, accVars, queue, poolVars, handlerVars,
                   connVars, readVars,
                   timeVars, frameVars, routeVars>>

RunBindErr ==
    /\ runPc = "bind"
    /\ runPc' = "returned_err"
    /\ UNCHANGED <<close, joinIdx, accVars, queue, poolVars, handlerVars,
                   connVars, readVars,
                   timeVars, frameVars, routeVars>>

ThreadPoolNew ==
    /\ runPc = "new_pool"
    /\ runPc' = "spawn_acceptor"
    /\ close' = FALSE
    /\ queue' = <<>>
    /\ wpc' = [w \in Workers |-> "lock"]
    /\ UNCHANGED <<joinIdx, accVars, lock, handlerVars, connVars, readVars,
                   timeVars, frameVars, routeVars>>

SpawnAcceptor ==
    /\ runPc = "spawn_acceptor"
    /\ runPc' = "join"
    /\ accPc' = "accept"
    /\ UNCHANGED <<close, joinIdx, accConn, nConns, cst, queue, poolVars,
                   handlerVars, connVars, readVars,
                   timeVars, frameVars, routeVars>>

(* ======================= ThreadPool::join ============================== *)

JoinStore ==
    /\ runPc = "join"
    /\ close' = TRUE
    /\ joinIdx' = 1
    /\ runPc' = "joining"
    /\ UNCHANGED <<accVars, queue, poolVars, handlerVars, connVars, readVars,
                   timeVars, frameVars, routeVars>>

JoinWorkerDetached ==
    /\ runPc = "joining"
    /\ joinIdx <= PoolSize
    /\ joinIdx' = joinIdx + 1
    /\ UNCHANGED <<runPc, close, accVars, queue, poolVars, handlerVars,
                   connVars, readVars,
                   timeVars, frameVars, routeVars>>

JoinWorker ==
    /\ runPc = "joining"
    /\ joinIdx <= PoolSize
    /\ wpc[joinIdx] = "exited"
    /\ joinIdx' = joinIdx + 1
    /\ UNCHANGED <<runPc, close, accVars, queue, poolVars, handlerVars,
                   connVars, readVars,
                   timeVars, frameVars, routeVars>>

RunReturnOk ==
    /\ runPc = "joining"
    /\ joinIdx > PoolSize
    /\ runPc' = "returned_ok"
    /\ UNCHANGED <<close, joinIdx, accVars, queue, poolVars, handlerVars,
                   connVars, readVars,
                   timeVars, frameVars, routeVars>>

(* ======================= acceptor thread =============================== *)

Accept ==
    /\ accPc = "accept"
    /\ nConns < MaxConns
    /\ nConns' = nConns + 1
    /\ accConn' = nConns + 1
    /\ cst' = [cst EXCEPT ![nConns + 1] = "accepted"]
    /\ accPc' = "send"
    /\ UNCHANGED <<runVars, queue, poolVars, handlerVars, connVars, readVars,
                   timeVars, frameVars, routeVars>>

AcceptErr ==
    /\ accPc = "accept"
    /\ accPc' = "done"
    /\ UNCHANGED <<runVars, accConn, nConns, cst, queue, poolVars,
                   handlerVars, connVars, readVars,
                   timeVars, frameVars, routeVars>>

SendOk ==
    /\ accPc = "send"
    /\ ~ReceiverDropped
    /\ queue' = Append(queue, accConn)
    /\ cst' = [cst EXCEPT ![accConn] = "sent"]
    /\ accConn' = 0
    /\ accPc' = "accept"
    /\ polls' = 0
    /\ idleWait' = FALSE
    /\ UNCHANGED <<runVars, nConns, poolVars, handlerVars, connVars, readVars,
                   frameVars, routeVars>>

SendErrEnqueues ==
    /\ accPc = "send"
    /\ ReceiverDropped
    /\ queue' = Append(queue, accConn)
    /\ cst' = [cst EXCEPT ![accConn] = "send_err"]
    /\ accConn' = 0
    /\ accPc' = "done"
    /\ UNCHANGED <<runVars, nConns, poolVars, handlerVars, connVars, readVars,
                   timeVars, frameVars, routeVars>>

SendErrContinues ==
    /\ accPc = "send"
    /\ ReceiverDropped
    /\ cst' = [cst EXCEPT ![accConn] = "send_err"]
    /\ accConn' = 0
    /\ accPc' = "accept"
    /\ UNCHANGED <<runVars, nConns, queue, poolVars, handlerVars, connVars,
                   readVars,
                   timeVars, frameVars, routeVars>>

SendErr ==
    /\ accPc = "send"
    /\ ReceiverDropped
    /\ cst' = [cst EXCEPT ![accConn] = "send_err"]
    /\ accConn' = 0
    /\ accPc' = "done"
    /\ UNCHANGED <<runVars, nConns, queue, poolVars, handlerVars, connVars,
                   readVars,
                   timeVars, frameVars, routeVars>>

(* ======================= Worker::inner ================================= *)

(* thread_handle returned Err to the closure *)
IsErr(w) == res[w][1] \notin {"none", "Ok"}

Lock(w) ==
    /\ wpc[w] = "lock"
    /\ lock = 0
    /\ lock' = w
    /\ wpc' = [wpc EXCEPT ![w] = "recv"]
    /\ idleWait' = ShutdownIdle
    /\ polls' = polls
    /\ UNCHANGED <<runVars, accVars, queue, handlerVars, connVars, readVars,
                   frameVars, routeVars>>

RecvOkPeek(w) ==
    /\ wpc[w] = "recv"
    /\ queue # <<>>
    /\ witem' = [witem EXCEPT ![w] = Head(queue)]
    /\ queue' = queue
    /\ deq' = [deq EXCEPT ![Head(queue)] = @ + 1]
    /\ lock' = 0
    /\ wpc' = [wpc EXCEPT ![w] = "handle"]
    /\ hpc' = [hpc EXCEPT ![w] = "read"]
    /\ idleWait' = FALSE
    /\ polls' = polls
    /\ UNCHANGED <<wfailed, runVars, accVars, res, trace, wrote, shut, readVars,
                   frameVars, routeVars>>

RecvOkHoldsLock(w) ==
    /\ wpc[w] = "recv"
    /\ queue # <<>>
    /\ witem' = [witem EXCEPT ![w] = Head(queue)]
    /\ queue' = Tail(queue)
    /\ deq' = [deq EXCEPT ![Head(queue)] = @ + 1]
    /\ lock' = lock
    /\ wpc' = [wpc EXCEPT ![w] = "handle"]
    /\ hpc' = [hpc EXCEPT ![w] = "read"]
    /\ idleWait' = FALSE
    /\ polls' = polls
    /\ UNCHANGED <<wfailed, runVars, accVars, res, trace, wrote, shut, readVars,
                   frameVars, routeVars>>

RecvOk(w) ==
    /\ wpc[w] = "recv"
    /\ queue # <<>>
    /\ witem' = [witem EXCEPT ![w] = Head(queue)]
    /\ queue' = Tail(queue)
    /\ deq' = [deq EXCEPT ![Head(queue)] = @ + 1]
    /\ lock' = 0
    /\ wpc' = [wpc EXCEPT ![w] = "handle"]
    /\ hpc' = [hpc EXCEPT ![w] = "read"]
    /\ idleWait' = FALSE
    /\ polls' = polls
    /\ UNCHANGED <<wfailed, runVars, accVars, res, trace, wrote, shut, readVars,
                   frameVars, routeVars>>

RecvTimeout(w) ==
    /\ wpc[w] = "recv"
    /\ queue = <<>>
    /\ ~SenderDropped
    /\ lock' = 0
    /\ wpc' = [wpc EXCEPT ![w] = "timeout"]
    /\ polls' = IF idleWait /\ ShutdownIdle THEN polls + 1 ELSE polls
    /\ idleWait' = FALSE
    /\ UNCHANGED <<runVars, accVars, queue, handlerVars, connVars, readVars,
                   frameVars, routeVars>>

RecvDisconnected(w) ==
    /\ wpc[w] = "recv"
    /\ queue = <<>>
    /\ SenderDropped
    /\ lock' = 0
    /\ wpc' = [wpc EXCEPT ![w] = "exited"]
    /\ idleWait' = FALSE
    /\ polls' = polls
    /\ UNCHANGED <<runVars, accVars, queue, handlerVars, connVars, readVars,
                   frameVars, routeVars>>

CheckCloseAlways(w) ==
    /\ wpc[w] = "timeout"
    /\ wpc' = [wpc EXCEPT ![w] = "exited"]
    /\ UNCHANGED <<runVars, accVars, queue, lock, handlerVars, connVars,
                   readVars,
                   timeVars, frameVars, routeVars>>

CheckClose(w) ==
    /\ wpc[w] = "timeout"
    /\ wpc' = [wpc EXCEPT ![w] = IF close THEN "exited" ELSE "lock"]
    /\ UNCHANGED <<runVars, accVars, queue, lock, handlerVars, connVars,
                   readVars,
                   timeVars, frameVars, routeVars>>

HandlerReturnUnwinds(w) ==
    /\ wpc[w] = "handle"
    /\ hpc[w] = "ret"
    /\ wpc' = [wpc EXCEPT ![w] = IF res[w][1] = "Ok" THEN "lock" ELSE "exited"]
    /\ witem' = [witem EXCEPT ![w] = 0]
    /\ hpc' = [hpc EXCEPT ![w] = "idle"]
    /\ res' = [res EXCEPT ![w] = <<"none", "">>]
    /\ trace' = [trace EXCEPT ![w] = <<>>]
    /\ wfailed' = [wfailed EXCEPT ![w] = @ \/ IsErr(w)]
    /\ UNCHANGED <<runVars, accVars, queue, lock, connVars, readVars,
                   timeVars, frameVars, routeVars>>

HandlerReturn(w) ==
    /\ wpc[w] = "handle"
    /\ hpc[w] = "ret"
    /\ wpc' = [wpc EXCEPT ![w] = "lock"]
    /\ witem' = [witem EXCEPT ![w] = 0]
    /\ hpc' = [hpc EXCEPT ![w] = "idle"]
    /\ res' = [res EXCEPT ![w] = <<"none", "">>]
    /\ trace' = [trace EXCEPT ![w] = <<>>]
    /\ wfailed' = [wfailed EXCEPT ![w] = @ \/ IsErr(w)]
    /\ UNCHANGED <<runVars, accVars, queue, lock, connVars, readVars,
                   timeVars, frameVars, routeVars>>

(* ============ handler closure and HttpServer::thread_handle ============ *)

InStep(w, s) == wpc[w] = "handle" /\ hpc[w] = s

(* What one call of the handler closure does to its connection, as the     *)
(* other threads see it: <<thread_handle's result, the write_all calls in  *)
(* order, shutdown(Both) called>>. The steps inside are ReadStream to      *)
(* StreamShutdown below.                                                   *)
HandleOutcomes ==
    { <<"Ok", << <<"response", TRUE>> >>, FALSE>>,
      <<"Err", << <<"bad_request", TRUE>> >>, FALSE>>,
      <<"Err", << <<"bad_request", FALSE>> >>, TRUE>>,
      <<"Err", << <<"response", FALSE>>, <<"bad_request", TRUE>> >>, FALSE>>,
      <<"Err", << <<"response", FALSE>>, <<"bad_request", FALSE>> >>, TRUE>> }

(* the closure given to ThreadPool::new, run on one dequeued item up to    *)
(* the point where it returns to Worker::inner                             *)
Handle(w) ==
    /\ InStep(w, "read")
    /\ \E o \in HandleOutcomes :
          /\ res' = [res EXCEPT ![w] = <<o[1], "">>]
          /\ wrote' = [wrote EXCEPT ![witem[w]] = @ \o o[2]]
          /\ shut' = [shut EXCEPT ![witem[w]] = o[3]]
    /\ hpc' = [hpc EXCEPT ![w] = "ret"]
    /\ UNCHANGED <<wfailed, runVars, accVars, queue, poolVars, witem, trace,
                   deq, readVars, timeVars, frameVars, routeVars>>

(* a step that succeeded: control moves on to the next statement *)
Proceed(w, name, idx, next) ==
    /\ trace' = [trace EXCEPT ![w] = Append(@, <<name, idx>>)]
    /\ hpc' = [hpc EXCEPT ![w] = next]
    /\ res' = res

(* the `?` operator: thread_handle returns Err(err) to the closure *)
Raise(w, name, err) ==
    /\ trace' = [trace EXCEPT ![w] = Append(@, <<name, 0>>)]
    /\ hpc' = [hpc EXCEPT ![w] = "bad_request"]
    /\ res' = [res EXCEPT ![w] = <<err, name>>]

ReadStream(w) ==
    /\ InStep(w, "read")
    /\ \/ Proceed(w, "read", 0, "split")
       \/ Raise(w, "read", "Io")
    /\ UNCHANGED <<wfailed, runVars, accVars, queue, poolVars, witem, connVars,
                   readVars,
                   timeVars, frameVars, routeVars>>

Split(w) ==
    /\ InStep(w, "split")
    /\ Proceed(w, "split", 0, "utf8")
    /\ UNCHANGED <<wfailed, runVars, accVars, queue, poolVars, witem, connVars,
                   readVars,
                   timeVars, frameVars, routeVars>>

FromUtf8(w) ==
    /\ InStep(w, "utf8")
    /\ \/ Proceed(w, "utf8", 0, "parse")
       \/ Raise(w, "utf8", "Utf8")
    /\ UNCHANGED <<wfailed, runVars, accVars, queue, poolVars, witem, connVars,
                   readVars,
                   timeVars, frameVars, routeVars>>

ParseHeaderFallsThrough(w) ==
    /\ InStep(w, "parse")
    /\ \/ Proceed(w, "parse", 0, "route")
       \/ /\ trace' = [trace EXCEPT ![w] = Append(@, <<"parse", 0>>)]
          /\ hpc' = [hpc EXCEPT ![w] = "route"]
          /\ res' = [res EXCEPT ![w] = <<"Http", "parse">>]
    /\ UNCHANGED <<wfailed, runVars, accVars, queue, poolVars, witem, connVars,
                   readVars,
                   timeVars, frameVars, routeVars>>

ParseHeader(w) ==
    /\ InStep(w, "parse")
    /\ \/ Proceed(w, "parse", 0, "route")
       \/ Raise(w, "parse", "Http")
    /\ UNCHANGED <<wfailed, runVars, accVars, queue, poolVars, witem, connVars,
                   readVars,
                   timeVars, frameVars, routeVars>>

(* lines 120-133; which service and parameters result is modelled by      *)
(* ResolveService                                                          *)
Route(w) ==
    /\ InStep(w, "route")
    /\ Proceed(w, "route", 0, "from_parts")
    /\ UNCHANGED <<wfailed, runVars, accVars, queue, poolVars, witem, connVars,
                   readVars, timeVars, frameVars, routeVars>>

FromParts(w) ==
    /\ InStep(w, "from_parts")
    /\ Proceed(w, "from_parts", 0, "before")
    /\ UNCHANGED <<wfailed, runVars, accVars, queue, poolVars, witem, connVars,
                   readVars, timeVars, frameVars, routeVars>>

(* the calls a `for middleware in &*app.middleware` loop makes, in order *)
HookCalls(name) == [i \in 1..NumMiddleware |-> <<name, i>>]

RunHooks(w, name, next) ==
    /\ trace' = [trace EXCEPT ![w] = @ \o HookCalls(name)]
    /\ hpc' = [hpc EXCEPT ![w] = next]
    /\ res' = res

BeforeReversed(w) ==
    /\ InStep(w, "before")
    /\ trace' = [trace EXCEPT ![w] =
                    @ \o [i \in 1..NumMiddleware |->
                              <<"before", NumMiddleware + 1 - i>>]]
    /\ hpc' = [hpc EXCEPT ![w] = "call"]
    /\ res' = res
    /\ UNCHANGED <<wfailed, runVars, accVars, queue, poolVars, witem, connVars,
                   readVars, timeVars, frameVars, routeVars>>

(* for middleware in &*app.middleware { middleware.before(&mut request) } *)
Before(w) ==
    /\ InStep(w, "before")
    /\ RunHooks(w, "before", "call")
    /\ UNCHANGED <<wfailed, runVars, accVars, queue, poolVars, witem, connVars,
                   readVars, timeVars, frameVars, routeVars>>

CallErrRunsAfter(w) ==
    /\ InStep(w, "call")
    /\ \/ Proceed(w, "call", 0, "after")
       \/ /\ trace' = [trace EXCEPT ![w] = Append(@, <<"call", 0>>)]
          /\ hpc' = [hpc EXCEPT ![w] = "after"]
          /\ res' = [res EXCEPT ![w] = <<"Http", "call">>]
    /\ UNCHANGED <<wfailed, runVars, accVars, queue, poolVars, witem, connVars,
                   readVars, timeVars, frameVars, routeVars>>

Call(w) ==
    /\ InStep(w, "call")
    /\ \/ Proceed(w, "call", 0, "after")
       \/ Raise(w, "call", "Http")
    /\ UNCHANGED <<wfailed, runVars, accVars, queue, poolVars, witem, connVars,
                   readVars, timeVars, frameVars, routeVars>>

(* for middleware in &*app.middleware { middleware.after(&request, ..) } *)
After(w) ==
    /\ InStep(w, "after")
    /\ RunHooks(w, "after", "write")
    /\ UNCHANGED <<wfailed, runVars, accVars, queue, poolVars, witem, connVars,
                   readVars, timeVars, frameVars, routeVars>>

(* stream.write_all(&response.into_bytes())?; Ok(()) *)
WriteResponse(w) ==
    /\ InStep(w, "write")
    /\ \/ /\ wrote' = [wrote EXCEPT ![witem[w]] = Append(@, <<"response", TRUE>>)]
          /\ trace' = [trace EXCEPT ![w] = Append(@, <<"write", 0>>)]
          /\ hpc' = [hpc EXCEPT ![w] = "ret"]
          /\ res' = [res EXCEPT ![w] = <<"Ok", "">>]
       \/ /\ wrote' = [wrote EXCEPT ![witem[w]] = Append(@, <<"response", FALSE>>)]
          /\ Raise(w, "write", "Io")
    /\ UNCHANGED <<wfailed, runVars, accVars, queue, poolVars, witem, deq,
                   shut, readVars,
                   timeVars, frameVars, routeVars>>

(* closure: if let Err(_) = thread_handle(data) { data.1.write_all(bad_request) } *)
BadRequest(w) ==
    /\ InStep(w, "bad_request")
    /\ \/ /\ wrote' = [wrote EXCEPT ![witem[w]] = Append(@, <<"bad_request", TRUE>>)]
          /\ hpc' = [hpc EXCEPT ![w] = "ret"]
       \/ /\ wrote' = [wrote EXCEPT ![witem[w]] = Append(@, <<"bad_request", FALSE>>)]
          /\ hpc' = [hpc EXCEPT ![w] = "shutdown"]
    /\ trace' = [trace EXCEPT ![w] = Append(@, <<"bad_request", 0>>)]
    /\ UNCHANGED <<wfailed, runVars, accVars, queue, poolVars, witem, res, deq,
                   shut, readVars,
                   timeVars, frameVars, routeVars>>

(* closure: data.1.shutdown(Shutdown::Both) *)
StreamShutdown(w) ==
    /\ InStep(w, "shutdown")
    /\ shut' = [shut EXCEPT ![witem[w]] = TRUE]
    /\ trace' = [trace EXCEPT ![w] = Append(@, <<"shutdown", 0>>)]
    /\ hpc' = [hpc EXCEPT ![w] = "ret"]
    /\ UNCHANGED <<wfailed, runVars, accVars, queue, poolVars, witem, res, deq,
                   wrote, readVars,
                   timeVars, frameVars, routeVars>>

(* ======================= HttpServer::read_stream ======================= *)

serverVars == <<runVars, accVars, queue, poolVars, handlerVars, connVars,
                timeVars>>

ReadChunkStopsAtHeader(n) ==
    /\ rpc = "loop"
    /\ amount_read' = amount_read + n
    /\ data_len' = data_len + n
    /\ hdr_seen' \in (IF hdr_seen THEN {TRUE} ELSE IF data_len + n >= 4 THEN BOOLEAN ELSE {FALSE})
    /\ rpc' = IF amount_read + n >= MAX_BYTES \/ hdr_seen' THEN "done" ELSE "loop"
    /\ UNCHANGED <<serverVars, frameVars, routeVars>>

(* stream.read returned Ok(n), n >= 1; the bytes appended may complete the *)
(* first CRLFCRLF of the buffer                                            *)
ReadChunk(n) ==
    /\ rpc = "loop"
    /\ amount_read' = amount_read + n
    /\ data_len' = data_len + n
    /\ hdr_seen' \in (IF hdr_seen THEN {TRUE} ELSE IF data_len + n >= 4 THEN BOOLEAN ELSE {FALSE})
    /\ rpc' = IF amount_read + n >= MAX_BYTES THEN "done" ELSE "loop"
    /\ UNCHANGED <<serverVars, frameVars, routeVars>>

(* stream.read returned Ok(0) *)
ReadEof ==
    /\ rpc = "loop"
    /\ rpc' = "done"
    /\ UNCHANGED <<amount_read, data_len, hdr_seen, serverVars, frameVars,
                   routeVars>>

(* stream.read returned Err: `?` leaves read_stream *)
ReadErr ==
    /\ rpc = "loop"
    /\ rpc' = "err"
    /\ UNCHANGED <<amount_read, data_len, hdr_seen, serverVars, frameVars,
                   routeVars>>

(* =========== thread_handle: header/body split (lines 105-114) ========== *)

IsSeparatorAt(bytes, i) ==
    /\ i + 4 <= Len(bytes)
    /\ SubSeq(bytes, i + 1, i + 4) = CRLFCRLF

(* bytes.windows(4).position(|window| window == b"\r\n\r\n"), 0-based; *)
(* -1 stands for None                                                    *)
Position(bytes) ==
    IF \E i \in 0..Len(bytes) : IsSeparatorAt(bytes, i)
    THEN CHOOSE i \in 0..Len(bytes) :
            /\ IsSeparatorAt(bytes, i)
            /\ \A j \in 0..(i - 1) : ~IsSeparatorAt(bytes, j)
    ELSE -1

(* bytes.split_at(mid) *)
SplitAt(bytes, mid) ==
    <<SubSeq(bytes, 1, mid), SubSeq(bytes, mid + 1, Len(bytes))>>

(* &body[2..] *)
From2(body) == SubSeq(body, 3, Len(body))

SplitHeaderBodyAtSeparator ==
    /\ f_pc = "split"
    /\ LET i == Position(f_bytes)
       IN IF i >= 0
          THEN /\ f_header' = SplitAt(f_bytes, i)[1]
               /\ f_body' = From2(From2(SplitAt(f_bytes, i)[2]))
          ELSE /\ f_header' = f_bytes
               /\ f_body' = <<>>
    /\ f_pc' = "done"
    /\ UNCHANGED <<f_bytes, serverVars, readVars, routeVars>>

SplitHeaderBody ==
    /\ f_pc = "split"
    /\ LET i == Position(f_bytes)
       IN IF i >= 0
          THEN /\ f_header' = SplitAt(f_bytes, i + 2)[1]
               /\ f_body' = From2(SplitAt(f_bytes, i + 2)[2])
          ELSE /\ f_header' = f_bytes
               /\ f_body' = <<>>
    /\ f_pc' = "done"
    /\ UNCHANGED <<f_bytes, serverVars, readVars, routeVars>>

(* =========== thread_handle: routing (lines 120-142) ==================== *)

InsertKeepsFirst(map, key, value) ==
    IF \E p \in map : p[1] = key THEN map ELSE map \cup {<<key, value>>}

(* BTreeMap::insert: a later pair replaces an earlier one with that key *)
Insert(map, key, value) ==
    {p \in map : p[1] # key} \cup {<<key, value>>}

(* parameters.into_iter().map(..).collect::<BTreeMap<_, _>>() *)
RECURSIVE Collect(_)
Collect(list) ==
    IF list = <<>> THEN {}
    ELSE LET n == Len(list)
         IN Insert(Collect(SubSeq(list, 1, n - 1)), list[n][1], list[n][2])

(* app.tree.get(method).and_then(|tree| tree.find(url)) *)
Lookup == IF r_tree THEN r_find ELSE <<>>

ResolveServiceFirstRoute ==
    /\ r_pc = "resolve"
    /\ IF Lookup # <<>>
       THEN /\ r_service' = Lookup[1][1]
            /\ r_params' = Collect(Lookup[1][2])
       ELSE /\ r_service' = "svc_a"
            /\ r_params' = {}
    /\ r_pc' = "from_parts"
    /\ UNCHANGED <<r_tree, r_find, r_request, r_called, serverVars, readVars,
                   frameVars>>

(* .map(..).unwrap_or_else(|| (app.not_found.clone(), BTreeMap::new())) *)
ResolveService ==
    /\ r_pc = "resolve"
    /\ IF Lookup # <<>>
       THEN /\ r_service' = Lookup[1][1]
            /\ r_params' = Collect(Lookup[1][2])
       ELSE /\ r_service' = "not_found"
            /\ r_params' = {}
    /\ r_pc' = "from_parts"
    /\ UNCHANGED <<r_tree, r_find, r_request, r_called, serverVars, readVars,
                   frameVars>>

(* HttpRequest::from_parts(header_data, body, parameters, data) *)
BuildRequest ==
    /\ r_pc = "from_parts"
    /\ r_request' = r_params
    /\ r_pc' = "call"
    /\ UNCHANGED <<r_tree, r_find, r_service, r_params, r_called, serverVars,
                   readVars, frameVars>>

(* service.call(&mut request) *)
CallService ==
    /\ r_pc = "call"
    /\ r_called' = <<r_service, r_request>>
    /\ r_pc' = "called"
    /\ UNCHANGED <<r_tree, r_find, r_service, r_params, r_request, serverVars,
                   readVars, frameVars>>

(* ======================= specifications ================================ *)

Next ==
    \/ RunBindOk \/ RunBindErr \/ ThreadPoolNew \/ SpawnAcceptor
    \/ JoinStore \/ JoinWorker \/ RunReturnOk
    \/ Accept \/ AcceptErr \/ SendOk \/ SendErr
    \/ \E w \in Workers :
        \/ Lock(w) \/ RecvOk(w) \/ RecvTimeout(w) \/ RecvDisconnected(w)
        \/ CheckClose(w) \/ Handle(w) \/ HandlerReturn(w)

Spec == Init /\ [][Next]_vars

(* The handler step by step: every worker that can has received an item   *)
(* of its own and is at the first statement of thread_handle.              *)
Holding == {w \in Workers : w <= MaxConns}

InitHandler ==
    /\ runPc = "join"
    /\ close = FALSE
    /\ joinIdx = 0
    /\ accPc = "accept"
    /\ accConn = 0
    /\ nConns = MaxConns
    /\ cst = [c \in Conns |-> "sent"]
    /\ queue = [i \in 1..(MaxConns - Cardinality(Holding)) |->
                   Cardinality(Holding) + i]
    /\ lock = 0
    /\ wpc = [w \in Workers |-> IF w \in Holding THEN "handle" ELSE "lock"]
    /\ witem = [w \in Workers |-> IF w \in Holding THEN w ELSE 0]
    /\ hpc = [w \in Workers |-> IF w \in Holding THEN "read" ELSE "idle"]
    /\ res = [w \in Workers |-> <<"none", "">>]
    /\ trace = [w \in Workers |-> <<>>]
    /\ deq = [c \in Conns |-> IF c \in Holding THEN 1 ELSE 0]
    /\ wfailed = [w \in Workers |-> FALSE]
    /\ wrote = [c \in Conns |-> <<>>]
    /\ shut = [c \in Conns |-> FALSE]
    /\ polls = 0
    /\ idleWait = FALSE
    /\ ReadInit
    /\ FrameInit(<<>>)
    /\ RouteInit(FALSE, <<>>)

NextHandler ==
    \E w \in Workers :
        \/ ReadStream(w) \/ Split(w) \/ FromUtf8(w) \/ ParseHeader(w)
        \/ Route(w) \/ FromParts(w) \/ Before(w) \/ Call(w) \/ After(w)
        \/ WriteResponse(w) \/ BadRequest(w) \/ StreamShutdown(w)
        \/ HandlerReturn(w)

SpecHandler == InitHandler /\ [][NextHandler]_vars

(* The state SpecHandler starts from, as Spec reaches it. *)
HandlerStart ==
    /\ \A w \in Holding : InStep(w, "read") /\ witem[w] = w
    /\ runPc = "join" /\ accPc = "accept" /\ nConns = MaxConns

(* Step by step the closure ends in one of the outcomes of Handle. *)
StepsWithinHandle ==
    \A w \in Workers :
        InStep(w, "ret") =>
            <<IF IsErr(w) THEN "Err" ELSE "Ok", wrote[witem[w]],
              shut[witem[w]]>> \in HandleOutcomes

NextRead == (\E n \in ReadSizes : ReadChunk(n)) \/ ReadEof \/ ReadErr

SpecRead == Init /\ [][NextRead]_vars

InitFrame ==
    /\ ServerInit
    /\ ReadInit
    /\ \E bytes \in SeqsUpTo(Bytes, MaxFrameLen) : FrameInit(bytes)
    /\ RouteInit(FALSE, <<>>)

NextFrame == SplitHeaderBody

SpecFrame == InitFrame /\ [][NextFrame]_vars

InitRoute ==
    /\ ServerInit
    /\ ReadInit
    /\ FrameInit(<<>>)
    /\ \E tree \in BOOLEAN :
          \E find \in {<<>>} \cup
                  {<< <<sv, list>> >> : sv \in Services, list \in ParamLists} :
              RouteInit(tree, find)

NextRoute == ResolveService \/ BuildRequest \/ CallService

SpecRoute == InitRoute /\ [][NextRoute]_vars

TypeOK ==
    /\ lock \in 0..PoolSize
    /\ \A c \in Conns : Len(wrote[c]) <= 2
    /\ Len(queue) <= MaxConns

(* ======================= properties ==================================== *)

IsOkWrite(x) == x[2]
NumWritten(c) == Len(SelectSeq(wrote[c], IsOkWrite))

Accepted(c) == cst[c] # "new"

(* the handler closure has returned (or is about to) for connection c *)
HandlerDone(c) ==
    /\ deq[c] > 0
    /\ \A w \in Workers : witem[w] = c => hpc[w] = "ret"

(* no thread can act on a connection any more *)
Quiescent == ReceiverDropped /\ accPc = "done"


(* C1: every accepted connection gets exactly one written response: never *)
(* more than one, and exactly one once its handler has finished or once   *)
(* the acceptor and all workers have stopped.                             *)
C1_ExactlyOneResponse ==
    \A c \in Conns :
        /\ NumWritten(c) <= 1
        /\ HandlerDone(c) => NumWritten(c) = 1
        /\ (Accepted(c) /\ Quiescent) => NumWritten(c) = 1

(* C2: once run() has spawned the acceptor, no worker exits and run()     *)
(* does not return in any step taken while accept has not failed and the  *)
(* queue is not closed.                                                   *)
C2_ServesIndefinitely ==
    [][(runPc \in {"join", "joining"} /\ accPc # "done" /\ ~ReceiverDropped)
         => /\ \A w \in Workers : wpc'[w] = "exited" => wpc[w] = "exited"
            /\ runPc' # "returned_ok"]_vars

(* C3: no submitted item is lost: once every worker has left its loop,    *)
(* every item whose send succeeded has been handed to the handler.        *)
C3_NoItemLost ==
    ReceiverDropped =>
        \A c \in Conns : cst[c] = "sent" => deq[c] > 0

(* C4: each item is dequeued at most once and handled by one worker: no   *)
(* two workers hold the same item, a held item is no longer in the queue, *)
(* and the worker running pipeline steps of an item is the one and only   *)
(* worker that received it.                                               *)
C4_DequeuedAtMostOnce ==
    /\ \A c \in Conns : deq[c] <= 1
    /\ \A w \in Workers :
          witem[w] # 0 =>
              /\ deq[witem[w]] = 1
              /\ \A i \in 1..Len(queue) : queue[i] # witem[w]
              /\ \A v \in Workers : v # w => witem[v] # witem[w]
    /\ \A w \in Workers :
          (hpc[w] # "idle" \/ trace[w] # <<>>) =>
              wpc[w] = "handle" /\ witem[w] # 0
    /\ \A c \in Conns : wrote[c] # <<>> => deq[c] = 1

C4_Witness ==
    \E w \in Workers, v \in Workers :
        /\ w # v
        /\ InStep(w, "ret") /\ InStep(v, "ret")
        /\ witem[w] # witem[v]

(* C5: join() has set the shutdown flag before it waits, and when it has  *)
(* returned every worker has left its loop and none is running the        *)
(* handler on an item.                                                    *)
C5_JoinWaitsForWorkers ==
    /\ runPc \in {"joining", "returned_ok"} => close
    /\ runPc = "returned_ok" =>
          \A w \in Workers :
              wpc[w] = "exited" /\ witem[w] = 0 /\ hpc[w] = "idle"

C5_Witness ==
    /\ runPc = "returned_ok"
    /\ \E c \in Conns : HandlerDone(c) /\ NumWritten(c) = 1

HasStep(w, n) == \E i \in 1..Len(trace[w]) : trace[w][i][1] = n

(* thread_handle failed in one of steps 1-9 (not in the response write) *)
FailedBeforeWrite(w) == IsErr(w) /\ res[w][2] # "write"

NoResponseWrite(c) ==
    \A i \in 1..Len(wrote[c]) : wrote[c][i][1] # "response"

(* after the failed step only the closure's fallback steps were executed *)
NoLaterStep(w) ==
    \A i \in 1..Len(trace[w]), j \in 1..Len(trace[w]) :
        (trace[w][i][1] = res[w][2] /\ j > i)
            => trace[w][j][1] \in {"bad_request", "shutdown"}

C7_FailureContained ==
    [][\A w \in Workers :
          (/\ wpc[w] = "handle"
           /\ hpc'[w] # hpc[w]
           /\ (IsErr(w) \/ res'[w][1] \notin {"none", "Ok"}))
          => /\ wpc'[w] = IF hpc[w] = "ret" THEN "lock" ELSE "handle"
             /\ \A v \in Workers \ {w} :
                   /\ wpc'[v] = wpc[v] /\ witem'[v] = witem[v]
                   /\ hpc'[v] = hpc[v] /\ res'[v] = res[v]
                   /\ trace'[v] = trace[v]
             /\ accPc' = accPc /\ accConn' = accConn /\ cst' = cst
             /\ queue' = queue /\ close' = close /\ runPc' = runPc
             /\ deq' = deq /\ \A v \in Workers \ {w} : wfailed'[v] = wfailed[v]
             /\ \A c \in Conns \ {witem[w]} :
                   wrote'[c] = wrote[c] /\ shut'[c] = shut[c]]_vars

IsBadRequestWrite(x) == x[1] = "bad_request"

(* a worker that finished a failed item is handling a later item *)
C7_Witness ==
    \E w \in Workers :
        /\ wfailed[w]
        /\ InStep(w, "ret")
        /\ res[w][1] = "Ok"
        /\ \E c \in Conns \ {witem[w]} :
              SelectSeq(wrote[c], IsBadRequestWrite) # <<>>

IsBefore(e) == e[1] = "before"
IsAfter(e) == e[1] = "after"
BeforeRun(w) == SelectSeq(trace[w], IsBefore)
AfterRun(w) == SelectSeq(trace[w], IsAfter)

ParsedOk(w) == HasStep(w, "parse") /\ res[w][2] # "parse"

(* C8: the before-hooks of a request run in registration order, each at   *)
(* most once, after the Request is built and before the service call; all *)
(* of them have run once the service is called for a parsed request; none *)
(* runs for a connection that failed in read, decoding or parsing.        *)
C8_BeforeHooks ==
    \A w \in Workers :
        /\ Len(BeforeRun(w)) <= NumMiddleware
        /\ \A i \in 1..Len(BeforeRun(w)) : BeforeRun(w)[i][2] = i
        /\ \A i \in 1..Len(trace[w]) :
              trace[w][i][1] = "before" =>
                  /\ \E k \in 1..(i - 1) : trace[w][k][1] = "from_parts"
                  /\ \A k \in 1..Len(trace[w]) :
                        trace[w][k][1] = "call" => k > i
        /\ (ParsedOk(w) /\ (HasStep(w, "call") \/ hpc[w] = "ret"))
              => Len(BeforeRun(w)) = NumMiddleware
        /\ (IsErr(w) /\ res[w][2] \in {"read", "utf8", "parse"})
              => BeforeRun(w) = <<>>

C8_Witness ==
    \E w \in Workers :
        /\ InStep(w, "call")
        /\ Len(BeforeRun(w)) = NumMiddleware

(* C9: the after-hooks run in registration order, each at most once, only *)
(* after the service call returned a Response and before that Response is *)
(* written; all of them have run when the Response is written; none runs  *)
(* when the service or an earlier step failed.                            *)
C9_AfterHooks ==
    \A w \in Workers :
        /\ Len(AfterRun(w)) <= NumMiddleware
        /\ \A i \in 1..Len(AfterRun(w)) : AfterRun(w)[i][2] = i
        /\ \A i \in 1..Len(trace[w]) :
              trace[w][i][1] = "after" =>
                  /\ \E k \in 1..(i - 1) : trace[w][k][1] = "call"
                  /\ res[w][2] # "call"
                  /\ \A k \in 1..Len(trace[w]) :
                        trace[w][k][1] = "write" => k > i
        /\ HasStep(w, "write") => Len(AfterRun(w)) = NumMiddleware
        /\ (IsErr(w) /\ res[w][2] \in {"read", "utf8", "parse", "call"})
              => AfterRun(w) = <<>>

C9_Witness ==
    \E w \in Workers :
        /\ InStep(w, "ret")
        /\ res[w][1] = "Ok"
        /\ Len(AfterRun(w)) = NumMiddleware

(* C10: read_stream never reads or stores more than MAX_BYTES bytes.      *)
C10_ReadStopsAtCap ==
    /\ amount_read <= MAX_BYTES
    /\ data_len <= MAX_BYTES

InQueueCount(c) == Cardinality({i \in 1..Len(queue) : queue[i] = c})

(* C14: a send() made once every worker has exited fails: it enqueues     *)
(* nothing and the acceptor sees is_err(); a send() made while a worker   *)
(* is left appends the item.                                              *)
C14_SendFailsWhenClosed ==
    [][(accPc = "send" /\ accPc' # "send") =>
          IF ReceiverDropped
          THEN queue' = queue /\ cst'[accConn] = "send_err"
          ELSE queue' = Append(queue, accConn) /\ cst'[accConn] = "sent"]_vars

C14_Witness ==
    \E c \in Conns :
        cst[c] = "send_err" /\ ReceiverDropped /\ InQueueCount(c) = 0

(* C15: the accept loop ends at the first accept failure or failed send   *)
(* and accepts or submits nothing afterwards; a connection is submitted   *)
(* at most once, and one whose send failed is never queued or handled.    *)
SubmittedOnce ==
    \A c \in Conns :
        /\ InQueueCount(c) + deq[c] <= 1
        /\ InQueueCount(c) + deq[c] = 1 <=> cst[c] = "sent"
        /\ cst[c] = "send_err" =>
              accPc = "done" /\ c = nConns /\ accConn = 0

C15_AcceptLoopStops ==
    [][/\ SubmittedOnce'
       /\ (accPc = "accept" /\ accPc' # "accept" /\ nConns' = nConns)
             => accPc' = "done"
       /\ accPc = "done" =>
             /\ accPc' = "done" /\ nConns' = nConns /\ cst' = cst
             /\ accConn' = accConn /\ Len(queue') <= Len(queue)]_vars

C15_Witness ==
    /\ accPc = "done"
    /\ \E c \in Conns : cst[c] = "send_err"
    /\ \E c \in Conns : cst[c] = "sent" /\ HandlerDone(c)

(* C17: at most one worker is inside the locked dequeue, the lock is held *)
(* exactly by a worker that is inside its recv_timeout call, and never by *)
(* a worker that is running the handler.                                  *)
C17_LockDiscipline ==
    /\ Cardinality({w \in Workers : wpc[w] = "recv"}) <= 1
    /\ \A w \in Workers : lock = w <=> wpc[w] = "recv"
    /\ \A w \in Workers : wpc[w] = "handle" => lock # w

C17_Witness ==
    \E w \in Workers, v \in Workers :
        /\ wpc[w] = "recv" /\ lock = w
        /\ InStep(v, "read")

(* C18: a worker leaves its loop only right after a timed-out dequeue     *)
(* with the shutdown flag set or right after a dequeue that reported the  *)
(* queue disconnected; a worker that received an item stays in the        *)
(* handler until the handler returns and then goes back to the dequeue.   *)
C18_ExitOnlyWhenIdle ==
    [][\A w \in Workers :
          /\ (wpc'[w] = "exited" /\ wpc[w] # "exited") =>
                \/ wpc[w] = "timeout" /\ close
                \/ wpc[w] = "recv" /\ queue = <<>> /\ SenderDropped
          /\ (wpc'[w] = "timeout" /\ wpc[w] # "timeout") =>
                wpc[w] = "recv" /\ queue = <<>>
          /\ wpc[w] = "handle" =>
                \/ wpc'[w] = "handle" /\ witem'[w] = witem[w]
                \/ hpc[w] = "ret" /\ wpc'[w] = "lock"]_vars

C18_Witness ==
    \E w \in Workers, v \in Workers :
        /\ close
        /\ wpc[w] = "exited"
        /\ wfailed[w]
        /\ InStep(v, "read")

(* C20: when the accept loop ended by an accept failure, every item sent  *)
(* before is handled exactly once before the workers are gone, a worker   *)
(* sees the queue disconnected only when it is empty, and run() returns   *)
(* Ok only after that.                                                    *)
C20_DrainsOnAcceptFailure ==
    (accPc = "done" /\ \A c \in Conns : cst[c] # "send_err") =>
        /\ ReceiverDropped =>
              \A c \in Conns :
                  cst[c] = "sent" => deq[c] = 1 /\ Len(wrote[c]) >= 1
        /\ runPc = "returned_ok" => ReceiverDropped /\ queue = <<>>

(* C16: once the shutdown flag is set, the queue is empty and the last    *)
(* in-flight item has finished, the workers need no more than one 100 ms  *)
(* dequeue wait to have all exited: a second complete wait that began in  *)
(* that condition never elapses.                                          *)
C16_OnePollInterval == polls <= 1

(* C19: read_stream leaves its loop only on a zero-byte read, on a read   *)
(* error, or when the bytes accumulated have reached MAX_BYTES; a buffer  *)
(* that already holds a complete CRLFCRLF-terminated header does not end  *)
(* it, so while the peer sends less than the cap and neither closes nor   *)
(* fails, read_stream has not returned and no later step has its input.   *)
C19_ReadEndsOnlyOnEofErrCap ==
    [][/\ (rpc = "loop" /\ rpc' # "loop") =>
              \/ rpc' = "err" /\ amount_read' = amount_read
              \/ rpc' = "done" /\ amount_read' = amount_read
              \/ rpc' = "done" /\ amount_read' >= MAX_BYTES
       /\ (rpc = "loop" /\ amount_read' > amount_read
              /\ amount_read' < MAX_BYTES) => rpc' = "loop"
       /\ rpc # "loop" => UNCHANGED readVars]_vars

C19_Witness ==
    /\ rpc = "loop"
    /\ hdr_seen
    /\ amount_read > 0
    /\ amount_read < MAX_BYTES

HasSeparator(bytes) == \E k \in 0..Len(bytes) : IsSeparatorAt(bytes, k)

Matched == r_tree /\ r_find # <<>>

PairsOf(list) == {list[i] : i \in 1..Len(list)}

(* the pairs of the list whose name is not captured again later *)
LastPairsOf(list) ==
    {list[i] : i \in {i \in 1..Len(list) :
                         \A j \in (i + 1)..Len(list) : list[j][1] # list[i][1]}}

====
